---- MODULE Spec2Model ----
(***************************************************************************)
(* TensorflowModelServe (app/otbTensorflowModelServe.cxx): the application *)
(* object, its parameter list, its source bundles, the model bundle, the   *)
(* inference filter and the streaming filter it wires, and the output sink *)
(* that pulls tiles once DoExecute has returned.                           *)
(*                                                                         *)
(* DoExecute is modelled statement block by statement block (pc, ip), in   *)
(* the order of the source, because several properties are about the order *)
(* of its statements.  The objects the application only calls into (model  *)
(* loading, expression parsing, the inference filter, the tile splitter,   *)
(* the streaming driver) are modelled from the design document and are     *)
(* marked so where they are defined.                                       *)
(***************************************************************************)
EXTENDS Integers, Sequences, FiniteSets, TLC

VARIABLES
  pc,              \* "start" | "configure" | "idle" | "exec" | "writing"
  ip,              \* position in DoExecuteOrder while pc = "exec", else 0
  nsources,        \* what tf::GetNumberOfSources() returns
  m_Bundles,       \* std::vector<ProcessObjectsBundle>
  m_ParameterList, \* declared parameters: key -> [type, minimum]
  params,          \* parameter values: key -> value
  m_SavedModel,    \* tensorflow::SavedModelBundle: [session]
  liveSessions,    \* sessions that have not been destroyed
  m_TFFilter,      \* the inference filter m_TFFilter points to
  m_StreamFilter,  \* the streaming filter m_StreamFilter points to
  out,             \* what the "out" parameter is connected to
  run,             \* number of DoExecute calls so far
  status,          \* outcome of the current run
  loadCount,       \* tf::LoadModel calls in the current run
  loadResult,      \* outcome of tf::LoadModel in the current run
  parseCount,      \* passes over model.userplaceholders in the current run
  pending,         \* tiles the sink has still to pull
  tileLog          \* one entry per tile computed in the current run

vars == <<pc, ip, nsources, m_Bundles, m_ParameterList, params, m_SavedModel,
          liveSessions, m_TFFilter, m_StreamFilter, out, run, status,
          loadCount, loadResult, parseCount, pending, tileLog>>

(***************************************************************************)
(* Bounds of the exploration.                                              *)
(***************************************************************************)
MaxSources == 2
MaxRuns == 2
MaxImage == 4

(***************************************************************************)
(* Arithmetic helpers.                                                     *)
(***************************************************************************)
Max(a, b) == IF a >= b THEN a ELSE b

Min(a, b) == IF a <= b THEN a ELSE b

CeilDiv(a, b) == IF a % b = 0 THEN a \div b ELSE (a \div b) + 1

Range(s) == {s[i] : i \in 1..Len(s)}

\* unsigned int is 32 bits wide; a value is kept as two 16-bit limbs <<hi, lo>>.
Limb == 65536

ToUInt(n) == <<(n \div Limb) % Limb, n % Limb>>

\* a * b modulo 2^32, for 0 <= a, b < 2^31, by limbs
MulUInt(a, b) ==
  LET a1 == a \div Limb
      a0 == a % Limb
      b1 == b \div Limb
      b0 == b % Limb
      \* a0 * b0 by 8-bit halves of b0, each partial product below 2^24
      p00 == a0 * (b0 % 256)
      p01 == a0 * (b0 \div 256)
      low == p00 + ((p01 % 256) * 256)
      carry == (p01 \div 256) + (low \div Limb)
      cross == (((a1 * b0) % Limb) + ((a0 * b1) % Limb) + carry) % Limb
  IN  <<cross, low % Limb>>

(***************************************************************************)
(* Parameter keys.  A key "source3.fovx" is kept as its three parts, the   *)
(* group name, the source number streamed into it, and the leaf name; the  *)
(* keys outside the source groups carry number 0.                          *)
(***************************************************************************)
Key(group, n, name) == [group |-> group, n |-> n, name |-> name]

\* ss_key_group << "source" << inputNumber, then << ".il" and so on
SourceKey(inputNumber, name) == Key("source", inputNumber, name)

Decl(type, minimum) == [type |-> type, minimum |-> minimum]

NoMinimum == <<>>

NoImage == [w |-> 0, h |-> 0]

\* The application object as constructed: no bundle, no parameter.
EmptyApp == [bundles |-> <<>>, plist |-> <<>>]

DeclareIn(plist, key, decl) ==
  [k \in (DOMAIN plist) \cup {key} |-> IF k = key THEN decl ELSE plist[k]]

\* A variant that numbers the source from the current size, without the + 1.
AddAnInputImageFromZero(app) ==
  LET inputNumber == Len(app.bundles)
      bundle == [m_ImageSource |-> NoImage, m_PatchSize |-> <<0, 0>>,
                 m_Placeholder |-> "",
                 m_KeyIn |-> SourceKey(inputNumber, "il"),
                 m_KeyPszX |-> SourceKey(inputNumber, "fovx"),
                 m_KeyPszY |-> SourceKey(inputNumber, "fovy"),
                 m_KeyPHName |-> SourceKey(inputNumber, "placeholder")]
  IN  [bundles |-> Append(app.bundles, bundle), plist |-> app.plist]

\* AddAnInputImage: declares the group source<N> and its four parameters and
\* pushes a bundle holding their keys.  m_PatchSize and m_Placeholder are
\* not set here; nothing reads them before PrepareInputs writes them.
AddAnInputImage(app) ==
  LET inputNumber == Len(app.bundles) + 1
      p0 == DeclareIn(app.plist, SourceKey(inputNumber, ""), Decl("Group", NoMinimum))
      p1 == DeclareIn(p0, SourceKey(inputNumber, "il"), Decl("InputImageList", NoMinimum))
      p2 == DeclareIn(p1, SourceKey(inputNumber, "fovx"), Decl("Int", <<1>>))
      p3 == DeclareIn(p2, SourceKey(inputNumber, "fovy"), Decl("Int", <<1>>))
      p4 == DeclareIn(p3, SourceKey(inputNumber, "placeholder"), Decl("String", NoMinimum))
      bundle == [m_ImageSource |-> NoImage, m_PatchSize |-> <<0, 0>>,
                 m_Placeholder |-> "",
                 m_KeyIn |-> SourceKey(inputNumber, "il"),
                 m_KeyPszX |-> SourceKey(inputNumber, "fovx"),
                 m_KeyPszY |-> SourceKey(inputNumber, "fovy"),
                 m_KeyPHName |-> SourceKey(inputNumber, "placeholder")]
  IN  [bundles |-> Append(app.bundles, bundle), plist |-> p4]

\* for (int i = 1; i < tf::GetNumberOfSources(); i++) AddAnInputImage();
RECURSIVE AddSourcesLoop(_, _, _)
AddSourcesLoop(app, i, n) ==
  IF i < n THEN AddSourcesLoop(AddAnInputImage(app), i + 1, n) ELSE app

\* The parameters DoInit declares after the sources, with their minimum.
DeclareModelParameters(plist) ==
  LET decls == <<
        <<Key("model", 0, ""), Decl("Group", NoMinimum)>>,
        <<Key("model", 0, "dir"), Decl("Directory", NoMinimum)>>,
        <<Key("model", 0, "userplaceholders"), Decl("StringList", NoMinimum)>>,
        <<Key("model", 0, "fullyconv"), Decl("Bool", NoMinimum)>>,
        <<Key("output", 0, ""), Decl("Group", NoMinimum)>>,
        <<Key("output", 0, "spcscale"), Decl("Float", NoMinimum)>>,
        <<Key("output", 0, "names"), Decl("StringList", NoMinimum)>>,
        <<Key("output", 0, "foex"), Decl("Int", <<1>>)>>,
        <<Key("output", 0, "foey"), Decl("Int", <<1>>)>>,
        <<Key("finetuning", 0, ""), Decl("Group", NoMinimum)>>,
        <<Key("finetuning", 0, "disabletiling"), Decl("Bool", NoMinimum)>>,
        <<Key("finetuning", 0, "tilesize"), Decl("Int", <<1>>)>>,
        <<Key("out", 0, "out"), Decl("OutputImage", NoMinimum)>> >>
      keys == {decls[i][1] : i \in 1..Len(decls)}
  IN  [k \in (DOMAIN plist) \cup keys |->
         IF k \in keys
           THEN (CHOOSE d \in Range(decls) : d[1] = k)[2]
           ELSE plist[k]]

\* DoInit: one source always, then one more per count above 1, then the
\* model, output, fine tuning and out parameters.
DoInitResult(n) ==
  LET a1 == AddAnInputImage(EmptyApp)
      a2 == AddSourcesLoop(a1, 1, n)
  IN  [bundles |-> a2.bundles, plist |-> DeclareModelParameters(a2.plist)]

(***************************************************************************)
(* The parameter values explored.  A configuration gives every declared    *)
(* parameter a value; three families are explored, each varying one group  *)
(* of parameters around the documented example.                            *)
(***************************************************************************)
Placeholders == {"x1", "x2"}

DefaultPlaceholder(i) == <<"x1", "x2", "x3", "x4">>[i]

DefaultImage == [w |-> 4, h |-> 4]

LargeImage == [w |-> 600, h |-> 600]

\* "t=false", "d=0.0", "n=3", and "bad", which has no '='
ExprTraining == <<"t", "=", "f", "a", "l", "s", "e">>

ExprDropout == <<"d", "=", "0", ".", "0">>

ExprCount == <<"n", "=", "3">>

ExprBad == <<"b", "a", "d">>

UserPlaceholderLists ==
  { <<>>, <<ExprTraining, ExprDropout>>, <<ExprDropout, ExprTraining>>,
    <<ExprBad>>, <<ExprCount, ExprBad>> }

OutputNameLists ==
  { <<"out_predict1">>, <<"out_predict1", "out_proba1">>,
    <<"out_proba1", "out_predict1">>, <<"out_proba1", "out_proba1">> }

TileSizes == {1, 2, 3, 16, 65536, 65537}

DefaultSource(i) ==
  [il |-> DefaultImage, fovx |-> 2, fovy |-> 2, placeholder |-> DefaultPlaceholder(i)]

DefaultModel == [dir |-> "model", userplaceholders |-> <<>>, fullyconv |-> 0]

DefaultOutput == [spcscale |-> 1, names |-> <<"out_predict1">>, foex |-> 1, foey |-> 1]

DefaultFinetuning == [disabletiling |-> 0, tilesize |-> 2]

Config(source, model, output, finetuning) ==
  [source |-> source, model |-> model, output |-> output,
   finetuning |-> finetuning, out |-> [out |-> "out.tif"]]

SourceConfigs(n) ==
  { Config(src, DefaultModel, DefaultOutput, DefaultFinetuning) :
      src \in [1..n -> [il : {DefaultImage}, fovx : {1, 2}, fovy : {1, 2},
                        placeholder : Placeholders]] }

ModelConfigs(n) ==
  { Config([i \in 1..n |-> DefaultSource(i)], m, o, f) :
      m \in [dir : {"model"}, userplaceholders : UserPlaceholderLists,
             fullyconv : {0, 1}],
      o \in {[spcscale |-> sc, names |-> nm, foex |-> fo, foey |-> fo] :
               sc \in {1, 2}, nm \in OutputNameLists, fo \in {1, 2}},
      f \in [disabletiling : {0, 1}, tilesize : {2}] }

TilingConfigs(n) ==
  { Config([i \in 1..n |-> [DefaultSource(i) EXCEPT !.il = img, !.fovx = 1, !.fovy = 1]],
           DefaultModel, DefaultOutput, [disabletiling |-> 0, tilesize |-> t]) :
      img \in [w : 3..MaxImage, h : 3..MaxImage], t \in TileSizes }
  \cup
  { Config([i \in 1..n |-> [DefaultSource(i) EXCEPT !.il = LargeImage, !.fovx = 1, !.fovy = 1]],
           DefaultModel, DefaultOutput, [disabletiling |-> 0, tilesize |-> t]) :
      t \in {65536, 65537} }

ParamSpace(n) == SourceConfigs(n) \cup ModelConfigs(n) \cup TilingConfigs(n)

\* The value a configuration gives to a key.
ValueOf(cfg, k) ==
  IF k.group = "source" THEN cfg.source[k.n][k.name] ELSE cfg[k.group][k.name]

\* A numerical parameter never holds a value below its declared minimum.
RespectsMinimum(plist, cfg) ==
  \A k \in DOMAIN plist :
    plist[k].minimum # NoMinimum => ValueOf(cfg, k) >= plist[k].minimum[1]

ValuedKeys(plist) == {k \in DOMAIN plist : plist[k].type # "Group"}

(***************************************************************************)
(* tf::ExpressionToTensor, from the design document, 4.5: "name=value";    *)
(* true/false is a boolean, a value with '.' or an exponent marker a       *)
(* float, any other an integer; a malformed expression is an error.  The   *)
(* tensor keeps the literal text of the value with its type.               *)
(***************************************************************************)
Digits == {"0", "1", "2", "3", "4", "5", "6", "7", "8", "9"}

FindEq(exp) ==
  IF \E i \in 1..Len(exp) : exp[i] = "="
    THEN CHOOSE i \in 1..Len(exp) : exp[i] = "=" /\ \A j \in 1..(i - 1) : exp[j] # "="
    ELSE 0

IsBoolLiteral(v) == v \in {<<"t", "r", "u", "e">>, <<"f", "a", "l", "s", "e">>}

IsFloatLiteral(v) ==
  /\ \E i \in 1..Len(v) : v[i] \in {".", "e", "E"}
  /\ \E i \in 1..Len(v) : v[i] \in Digits
  /\ \A i \in 1..Len(v) : v[i] \in Digits \cup {".", "e", "E", "-", "+"}

IsIntLiteral(v) ==
  /\ Len(v) > 0
  /\ \A i \in 1..Len(v) : v[i] \in Digits \/ (i = 1 /\ v[i] = "-" /\ Len(v) > 1)

ExpressionToTensor(exp) ==
  LET found == FindEq(exp)
      name == SubSeq(exp, 1, found - 1)
      value == SubSeq(exp, found + 1, Len(exp))
      type == IF IsBoolLiteral(value) THEN "bool"
              ELSE IF IsFloatLiteral(value) THEN "float"
              ELSE IF IsIntLiteral(value) THEN "int"
              ELSE "none"
  IN  IF found = 0 \/ name = <<>> \/ type = "none"
        THEN [ok |-> FALSE, first |-> <<>>, second |-> [type |-> "none", value |-> <<>>]]
        ELSE [ok |-> TRUE, first |-> name, second |-> [type |-> type, value |-> value]]

DictEntry(e) == [first |-> e.first, second |-> e.second]

\* A variant of the loop that stops one expression short.
UserPlaceholdersDropLast(expressions) ==
  LET n == Max(Len(expressions) - 1, 0)
      entries == [i \in 1..n |-> ExpressionToTensor(expressions[i])]
  IN  [ok |-> \A i \in 1..n : entries[i].ok,
       dict |-> [i \in 1..n |-> DictEntry(entries[i])]]

\* for (auto& exp: expressions) dict.push_back(tf::ExpressionToTensor(exp));
\* ok is false when one of the calls throws.
UserPlaceholdersDict(expressions) ==
  LET entries == [i \in 1..Len(expressions) |-> ExpressionToTensor(expressions[i])]
  IN  [ok |-> \A i \in 1..Len(expressions) : entries[i].ok,
       dict |-> [i \in 1..Len(expressions) |-> DictEntry(entries[i])]]

(***************************************************************************)
(* The inference filter (TensorflowMultisourceModelFilter).  Its setters   *)
(* are the calls DoExecute makes; what it does with the values per tile    *)
(* is taken from the design document, 4.2.                                 *)
(***************************************************************************)
NoRegion == [x |-> 0, y |-> 0, w |-> 0, h |-> 0]

\* A filter as TFModelFilterType::New() leaves it; gen 0 is the null pointer.
NewFilter ==
  [gen |-> 0, graph |-> 0, session |-> 0, outputTensorsNames |-> <<>>,
   outputSpacingScale |-> 1, userPlaceholders |-> <<>>, inputs |-> <<>>,
   fullyConvolutional |-> FALSE, outputFOESize |-> <<1, 1>>,
   outputRegion |-> NoRegion]

\* The values DoExecute sets on the filter.
FilterConfig(f) ==
  <<f.graph, f.session, f.outputTensorsNames, f.outputSpacingScale,
    f.userPlaceholders, f.inputs, f.fullyConvolutional, f.outputFOESize>>

\* Design document, 4.2 step 1: the input region is the scaled output region
\* plus a halo of patch size minus field of expression.
OutputSize(inSize, patch, foe, scale) == Max((inSize - patch + foe) \div scale, 0)

\* UpdateOutputInformation: the largest possible region of the output, from
\* the first source.
OutputRegionOf(f) ==
  IF f.inputs = <<>> THEN NoRegion
  ELSE LET ref == f.inputs[1]
       IN  [x |-> 0, y |-> 0,
            w |-> OutputSize(ref.image.w, ref.patchSize[1], f.outputFOESize[1], f.outputSpacingScale),
            h |-> OutputSize(ref.image.h, ref.patchSize[2], f.outputFOESize[2], f.outputSpacingScale)]

NumberOfPixels(r) == r.w * r.h

\* Channels of the tensors of the served model.
ModelChannels(name) == IF name = "out_proba1" THEN 2 ELSE 1

\* Design document, 4.2 step 5: for each name, in order, append its channels.
RECURSIVE StackBands(_)
StackBands(names) ==
  IF names = <<>> THEN <<>>
  ELSE [c \in 1..ModelChannels(Head(names)) |-> [tensor |-> Head(names), channel |-> c]]
       \o StackBands(Tail(names))

\* Design document, 4.2 steps 2 to 5 for one tile: what is fed, what is
\* fetched, on which session, and the bands of the tile buffer.
ComputeTile(f, region) ==
  [region |-> region,
   feeds |-> [i \in 1..Len(f.inputs) |->
                [name |-> f.inputs[i].placeholder, patch |-> f.inputs[i].patchSize]],
   constants |-> f.userPlaceholders,
   fetch |-> f.outputTensorsNames,
   bands |-> StackBands(f.outputTensorsNames),
   session |-> f.session,
   calls |-> IF f.fullyConvolutional THEN 1
             ELSE CeilDiv(region.w, f.outputFOESize[1]) * CeilDiv(region.h, f.outputFOESize[2])]

(***************************************************************************)
(* The square tile splitter and the streaming filter, from the design      *)
(* document, 4.3 and 4.4: square tiles of the alignment value, row by row, *)
(* cropped to the region; the driver pulls them one at a time.             *)
(***************************************************************************)
NullStreamFilter == [gen |-> 0, alignment |-> 0, numberOfStreamDivisions |-> <<0, 0>>, input |-> 0]

NotConnected == [via |-> "none", run |-> 0]

Split(region, t) ==
  IF region.w <= 0 \/ region.h <= 0 THEN <<>>
  ELSE LET nx == CeilDiv(region.w, t)
           ny == CeilDiv(region.h, t)
       IN  [i \in 1..(nx * ny) |->
              LET col == (i - 1) % nx
                  row == (i - 1) \div nx
              IN  [x |-> region.x + (col * t), y |-> region.y + (row * t),
                   w |-> Min(t, region.w - (col * t)),
                   h |-> Min(t, region.h - (row * t))]]

(***************************************************************************)
(* The values DoExecute computes for the streaming branch.                 *)
(***************************************************************************)
\* A variant that aligns the tiles on one more than the tile size.
TileSizeAlignmentPlusOne(tileSize) == tileSize + 1

\* splitter->SetTileSizeAlignment(tileSize)
TileSizeAlignmentArg(tileSize) == tileSize

\* What the conversion of +infinity to unsigned int can give: the value is
\* outside the type, so the result is whatever the target's conversion
\* leaves, 0 on x86 and 0xFFFFFFFF where the conversion saturates.
CeilOfInfinity == {<<0, 0>>, <<65535, 65535>>}

\* itk::Math::Ceil<unsigned int>(double(nPixels) / (tileSize * tileSize)),
\* the product taken in unsigned int.  The set holds every possible result.
NbDesiredTiles(nPixels, tileSize) ==
  LET sq == MulUInt(tileSize, tileSize)
  IN  IF sq = <<0, 0>> THEN (IF nPixels = 0 THEN {<<0, 0>>} ELSE CeilOfInfinity)
      ELSE IF sq[1] >= 32768 THEN {ToUInt(IF nPixels = 0 THEN 0 ELSE 1)}
      ELSE {ToUInt(CeilDiv(nPixels, (sq[1] * Limb) + sq[2]))}

\* A variant that hands the filter each name once.
OutputNamesDeduplicated(names) ==
  LET RECURSIVE Dedup(_, _)
      Dedup(rest, seen) ==
        IF rest = <<>> THEN <<>>
        ELSE IF Head(rest) \in seen THEN Dedup(Tail(rest), seen)
        ELSE <<Head(rest)>> \o Dedup(Tail(rest), seen \cup {Head(rest)})
  IN  Dedup(names, {})

\* m_TFFilter->SetOutputTensorsNames(GetParameterStringList("output.names"))
OutputNamesArg(names) == names

\* for (auto& bundle: m_Bundles) m_TFFilter->PushBackInputBundle(...)
InputBundles(bundles) ==
  [i \in 1..Len(bundles) |->
     [placeholder |-> bundles[i].m_Placeholder, patchSize |-> bundles[i].m_PatchSize,
      image |-> bundles[i].m_ImageSource]]

\* PrepareInputs: every bundle reads its own four parameters.
PreparedBundles(bundles, values) ==
  [i \in 1..Len(bundles) |->
     [bundles[i] EXCEPT
        !.m_ImageSource = values[bundles[i].m_KeyIn],
        !.m_Placeholder = values[bundles[i].m_KeyPHName],
        !.m_PatchSize = <<values[bundles[i].m_KeyPszX], values[bundles[i].m_KeyPszY]>>]]

(***************************************************************************)
(* The order of the statement blocks of DoExecute.                         *)
(***************************************************************************)
\* Variants of the order: the output connected before the placeholders are
\* parsed; the field of expression set after the streaming block; the
\* filter set up before the model is loaded.
OrderConnectBeforeParse ==
  <<"load", "prepare", "setup", "push", "fullyconv", "foe", "stream", "userph">>

OrderFoeAfterStream ==
  <<"load", "prepare", "setup", "userph", "push", "fullyconv", "stream", "foe">>

OrderSetupBeforeLoad ==
  <<"setup", "load", "prepare", "userph", "push", "fullyconv", "foe", "stream">>

DoExecuteOrder ==
  <<"load", "prepare", "setup", "userph", "push", "fullyconv", "foe", "stream">>

(***************************************************************************)
(* Initial state: the application object constructed, DoInit not yet run.  *)
(***************************************************************************)
Init ==
  /\ pc = "start"
  /\ ip = 0
  /\ nsources \in (0 - 1)..MaxSources
  /\ m_Bundles = <<>>
  /\ m_ParameterList = <<>>
  /\ params = <<>>
  /\ m_SavedModel = [session |-> 0, graph |-> 0]
  /\ liveSessions = {}
  /\ m_TFFilter = NewFilter
  /\ m_StreamFilter = NullStreamFilter
  /\ out = NotConnected
  /\ run = 0
  /\ status = "none"
  /\ loadCount = 0
  /\ loadResult = "none"
  /\ parseCount = 0
  /\ pending = <<>>
  /\ tileLog = <<>>

DoInit ==
  /\ pc = "start"
  /\ LET app == DoInitResult(nsources)
     IN  /\ m_Bundles' = app.bundles
         /\ m_ParameterList' = app.plist
  /\ pc' = "configure"
  /\ UNCHANGED <<ip, nsources, params, m_SavedModel, liveSessions, m_TFFilter,
                 m_StreamFilter, out, run, status, loadCount, loadResult,
                 parseCount, pending, tileLog>>

\* The framework gives every declared parameter its value before Execute.
SetParameters ==
  /\ pc = "configure"
  /\ \E cfg \in ParamSpace(Len(m_Bundles)) :
       /\ RespectsMinimum(m_ParameterList, cfg)
       /\ params' = [k \in ValuedKeys(m_ParameterList) |-> ValueOf(cfg, k)]
  /\ pc' = "idle"
  /\ UNCHANGED <<ip, nsources, m_Bundles, m_ParameterList, m_SavedModel,
                 liveSessions, m_TFFilter, m_StreamFilter, out, run, status,
                 loadCount, loadResult, parseCount, pending, tileLog>>

\* Execute is called; the per-run records start afresh.
DoExecuteBegin ==
  /\ pc = "idle"
  /\ run < MaxRuns
  /\ run' = run + 1
  /\ pc' = "exec"
  /\ ip' = 1
  /\ status' = "running"
  /\ loadCount' = 0
  /\ loadResult' = "none"
  /\ parseCount' = 0
  /\ pending' = <<>>
  /\ tileLog' = <<>>
  /\ UNCHANGED <<nsources, m_Bundles, m_ParameterList, params, m_SavedModel,
                 liveSessions, m_TFFilter, m_StreamFilter, out>>

At(label) == pc = "exec" /\ DoExecuteOrder[ip] = label

\* The next statement block, or the return of DoExecute after the last.
Continue ==
  IF ip < Len(DoExecuteOrder)
    THEN pc' = "exec" /\ ip' = ip + 1 /\ status' = status
    ELSE pc' = "idle" /\ ip' = 0 /\ status' = "ok"

\* An exception leaves DoExecute.
Throw(error) == pc' = "idle" /\ ip' = 0 /\ status' = error

\* tf::LoadModel(GetParameterAsString("model.dir"), m_SavedModel): a new
\* session replaces the one the bundle held, or the call throws (design
\* document, 6), leaving the bundle as it was or emptied.
LoadModel ==
  /\ At("load")
  /\ loadCount' = loadCount + 1
  /\ \/ /\ m_SavedModel' = [session |-> run, graph |-> run]
        /\ liveSessions' = {run}
        /\ loadResult' = "ok"
        /\ Continue
     \/ /\ \/ UNCHANGED <<m_SavedModel, liveSessions>>
           \/ m_SavedModel' = [session |-> 0, graph |-> 0] /\ liveSessions' = {}
        /\ loadResult' = "failed"
        /\ Throw("loadError")
  /\ UNCHANGED <<nsources, m_Bundles, m_ParameterList, params, m_TFFilter,
                 m_StreamFilter, out, run, parseCount, pending, tileLog>>

PrepareInputs ==
  /\ At("prepare")
  /\ m_Bundles' = PreparedBundles(m_Bundles, params)
  /\ Continue
  /\ UNCHANGED <<nsources, m_ParameterList, params, m_SavedModel, liveSessions,
                 m_TFFilter, m_StreamFilter, out, run, loadCount, loadResult,
                 parseCount, pending, tileLog>>

\* m_TFFilter = New(); SetGraph; SetSession; SetOutputTensorsNames;
\* SetOutputSpacingScale
SetupFilter ==
  /\ At("setup")
  /\ m_TFFilter' =
       [NewFilter EXCEPT
          !.gen = run,
          !.graph = m_SavedModel.graph,
          !.session = m_SavedModel.session,
          !.outputTensorsNames = OutputNamesArg(params[Key("output", 0, "names")]),
          !.outputSpacingScale = params[Key("output", 0, "spcscale")]]
  /\ Continue
  /\ UNCHANGED <<nsources, m_Bundles, m_ParameterList, params, m_SavedModel,
                 liveSessions, m_StreamFilter, out, run, loadCount, loadResult,
                 parseCount, pending, tileLog>>

\* The user placeholders are parsed and handed to the filter, or the first
\* malformed expression throws.
SetUserPlaceholders ==
  /\ At("userph")
  /\ parseCount' = parseCount + 1
  /\ LET parsed == UserPlaceholdersDict(params[Key("model", 0, "userplaceholders")])
     IN  \/ /\ parsed.ok
            /\ m_TFFilter' = [m_TFFilter EXCEPT !.userPlaceholders = parsed.dict]
            /\ Continue
         \/ /\ ~parsed.ok
            /\ UNCHANGED m_TFFilter
            /\ Throw("parseError")
  /\ UNCHANGED <<nsources, m_Bundles, m_ParameterList, params, m_SavedModel,
                 liveSessions, m_StreamFilter, out, run, loadCount, loadResult,
                 pending, tileLog>>

PushInputBundles ==
  /\ At("push")
  /\ m_TFFilter' = [m_TFFilter EXCEPT !.inputs = @ \o InputBundles(m_Bundles)]
  /\ Continue
  /\ UNCHANGED <<nsources, m_Bundles, m_ParameterList, params, m_SavedModel,
                 liveSessions, m_StreamFilter, out, run, loadCount, loadResult,
                 parseCount, pending, tileLog>>

\* if (GetParameterInt("model.fullyconv") == 1) SetFullyConvolutional(true)
SetFullyConvolutional ==
  /\ At("fullyconv")
  /\ m_TFFilter' =
       IF params[Key("model", 0, "fullyconv")] = 1
         THEN [m_TFFilter EXCEPT !.fullyConvolutional = TRUE]
         ELSE m_TFFilter
  /\ Continue
  /\ UNCHANGED <<nsources, m_Bundles, m_ParameterList, params, m_SavedModel,
                 liveSessions, m_StreamFilter, out, run, loadCount, loadResult,
                 parseCount, pending, tileLog>>

SetOutputFOESize ==
  /\ At("foe")
  /\ m_TFFilter' =
       [m_TFFilter EXCEPT !.outputFOESize =
          <<params[Key("output", 0, "foex")], params[Key("output", 0, "foey")]>>]
  /\ Continue
  /\ UNCHANGED <<nsources, m_Bundles, m_ParameterList, params, m_SavedModel,
                 liveSessions, m_StreamFilter, out, run, loadCount, loadResult,
                 parseCount, pending, tileLog>>

\* The streaming block: with tiling, the output information is computed,
\* the splitter and the streaming filter are created and "out" is the
\* streaming filter's output; without, "out" is the filter's output.
SetupStreaming ==
  /\ At("stream")
  /\ \/ /\ params[Key("finetuning", 0, "disabletiling")] # 1
        /\ LET tileSize == params[Key("finetuning", 0, "tilesize")]
               region == OutputRegionOf(m_TFFilter)
           IN  /\ m_TFFilter' = [m_TFFilter EXCEPT !.outputRegion = region]
               /\ \E nbDesiredTiles \in NbDesiredTiles(NumberOfPixels(region), tileSize) :
                    m_StreamFilter' =
                      [gen |-> run,
                       alignment |-> TileSizeAlignmentArg(tileSize),
                       numberOfStreamDivisions |-> nbDesiredTiles,
                       input |-> m_TFFilter.gen]
        /\ out' = [via |-> "stream", run |-> run]
     \/ /\ params[Key("finetuning", 0, "disabletiling")] = 1
        /\ out' = [via |-> "filter", run |-> run]
        /\ UNCHANGED <<m_TFFilter, m_StreamFilter>>
  /\ Continue
  /\ UNCHANGED <<nsources, m_Bundles, m_ParameterList, params, m_SavedModel,
                 liveSessions, run, loadCount, loadResult, parseCount, pending,
                 tileLog>>

(***************************************************************************)
(* The output sink, after DoExecute has returned without an exception: it  *)
(* updates the output information and pulls the output, tile by tile       *)
(* through the streaming filter or as one region (design document, 4.4).   *)
(***************************************************************************)
WriteOutputBegin ==
  /\ pc = "idle"
  /\ status = "ok"
  /\ out.via # "none"
  /\ LET region == OutputRegionOf(m_TFFilter)
     IN  /\ m_TFFilter' = [m_TFFilter EXCEPT !.outputRegion = region]
         /\ pending' = IF out.via = "stream"
                         THEN Split(region, m_StreamFilter.alignment)
                         ELSE <<region>>
  /\ pc' = "writing"
  /\ UNCHANGED <<ip, nsources, m_Bundles, m_ParameterList, params, m_SavedModel,
                 liveSessions, m_StreamFilter, out, run, status, loadCount,
                 loadResult, parseCount, tileLog>>

ProcessTile ==
  /\ pc = "writing"
  /\ pending # <<>>
  /\ tileLog' = Append(tileLog, ComputeTile(m_TFFilter, Head(pending)))
  /\ pending' = Tail(pending)
  /\ UNCHANGED <<pc, ip, nsources, m_Bundles, m_ParameterList, params,
                 m_SavedModel, liveSessions, m_TFFilter, m_StreamFilter, out,
                 run, status, loadCount, loadResult, parseCount>>

WriteOutputEnd ==
  /\ pc = "writing"
  /\ pending = <<>>
  /\ pc' = "idle"
  /\ status' = "written"
  /\ UNCHANGED <<ip, nsources, m_Bundles, m_ParameterList, params, m_SavedModel,
                 liveSessions, m_TFFilter, m_StreamFilter, out, run, loadCount,
                 loadResult, parseCount, pending, tileLog>>

Next ==
  \/ DoInit
  \/ SetParameters
  \/ DoExecuteBegin
  \/ LoadModel
  \/ PrepareInputs
  \/ SetupFilter
  \/ SetUserPlaceholders
  \/ PushInputBundles
  \/ SetFullyConvolutional
  \/ SetOutputFOESize
  \/ SetupStreaming
  \/ WriteOutputBegin
  \/ ProcessTile
  \/ WriteOutputEnd

Spec == Init /\ [][Next]_vars

(***************************************************************************)
(* Properties.                                                             *)
(***************************************************************************)
Configured == pc \notin {"start", "configure"}

\* The inference filter m_TFFilter points to was created by the current run.
FilterOfThisRun == run > 0 /\ m_TFFilter.gen = run

\* The streaming filter was created by the current run.
StreamingOfThisRun == run > 0 /\ m_StreamFilter.gen = run

\* Number of bands that precede the first band of the j-th name.
RECURSIVE BandOffset(_, _)
BandOffset(names, j) ==
  IF j <= 1 THEN 0 ELSE BandOffset(names, j - 1) + ModelChannels(names[j - 1])

\* C2: the names handed to the filter are the declared list of output.names
\* as it stands, and in every tile the bands are the channels of the
\* declared names in declaration order, each name's channels contiguous and
\* all present.
OutputBandOrder ==
  Configured =>
    LET names == params[Key("output", 0, "names")]
    IN  /\ FilterOfThisRun => m_TFFilter.outputTensorsNames = names
        /\ \A t \in 1..Len(tileLog) :
             /\ tileLog[t].fetch = names
             /\ Len(tileLog[t].bands) = BandOffset(names, Len(names) + 1)
             /\ \A j \in 1..Len(names) : \A c \in 1..ModelChannels(names[j]) :
                  tileLog[t].bands[BandOffset(names, j) + c]
                    = [tensor |-> names[j], channel |-> c]

\* C2 witness: a second tile of a tiled run whose two declared names have
\* two channels and one channel, in that order.
OutputBandOrderWitness ==
  /\ Len(tileLog) >= 2
  /\ out.via = "stream"
  /\ tileLog[2].fetch = <<"out_proba1", "out_predict1">>
  /\ Len(tileLog[2].bands) = 3

\* C3: model.userplaceholders is parsed once per run, and the user
\* placeholders bound in every tile of the run are the parsed expressions,
\* all of them, in declaration order, with their parsed values.
PlaceholderConstancy ==
  Configured =>
    LET exps == params[Key("model", 0, "userplaceholders")]
        atStart == [i \in 1..Len(exps) |-> DictEntry(ExpressionToTensor(exps[i]))]
    IN  /\ parseCount <= 1
        /\ \A t \in 1..Len(tileLog) :
             /\ parseCount = 1
             /\ tileLog[t].constants = atStart

\* C3 witness: the third tile of a tiled run binds a boolean and a float.
PlaceholderConstancyWitness ==
  /\ Len(tileLog) >= 3
  /\ out.via = "stream"
  /\ Len(tileLog[3].constants) = 2
  /\ tileLog[3].constants[1].second.type = "bool"
  /\ tileLog[3].constants[2].second.type = "float"

Inside(tile, region) ==
  /\ tile.w >= 1 /\ tile.h >= 1
  /\ tile.x >= region.x /\ tile.x + tile.w <= region.x + region.w
  /\ tile.y >= region.y /\ tile.y + tile.h <= region.y + region.h

Disjoint(a, b) ==
  \/ a.x + a.w <= b.x \/ b.x + b.w <= a.x
  \/ a.y + a.h <= b.y \/ b.y + b.h <= a.y

RECURSIVE SumOfAreas(_)
SumOfAreas(tiles) ==
  IF tiles = <<>> THEN 0 ELSE NumberOfPixels(Head(tiles)) + SumOfAreas(Tail(tiles))

TileCountIsCeil ==
  StreamingOfThisRun =>
    LET t == params[Key("finetuning", 0, "tilesize")]
        n == NumberOfPixels(m_TFFilter.outputRegion)
        expected == IF t > 46340 THEN 1 ELSE CeilDiv(n, t * t)
    IN  /\ m_StreamFilter.numberOfStreamDivisions = ToUInt(expected)
        /\ m_StreamFilter.numberOfStreamDivisions # <<0, 0>>

\* C6: no tile is pulled and "out" is not connected by a run unless its
\* model load and the parsing of every user placeholder expression have
\* succeeded; a run whose load or parsing fails ends with "out" not
\* connected by it and no tile computed.
ErrorsPrecedeTiles ==
  Configured =>
    LET exps == params[Key("model", 0, "userplaceholders")]
        malformed == \E i \in 1..Len(exps) : ~ExpressionToTensor(exps[i]).ok
        connected == run > 0 /\ out.run = run
    IN  /\ (tileLog # <<>> \/ pending # <<>> \/ connected) =>
             loadResult = "ok" /\ parseCount = 1 /\ ~malformed
        /\ status \in {"loadError", "parseError"} =>
             ~connected /\ tileLog = <<>> /\ pending = <<>>
        /\ loadResult = "failed" => status = "loadError"
        /\ (malformed /\ parseCount = 1) => status = "parseError"

\* C6 witness: a run whose load succeeded and whose parsing failed, after
\* the filter was created.
ErrorsPrecedeTilesWitness ==
  /\ status = "parseError"
  /\ loadResult = "ok"
  /\ FilterOfThisRun

\* C7: in a run that reaches its first tile, every bundle pushed into the
\* filter has patch size components >= 1 and a placeholder name that is not
\* empty and differs from the name of every other bundle.
BundlesValid ==
  (tileLog # <<>> \/ pending # <<>>) =>
    LET inputs == m_TFFilter.inputs
    IN  /\ \A i \in 1..Len(inputs) :
             /\ inputs[i].patchSize[1] >= 1
             /\ inputs[i].patchSize[2] >= 1
             /\ inputs[i].placeholder # ""
        /\ \A i, j \in 1..Len(inputs) :
             i # j => inputs[i].placeholder # inputs[j].placeholder

\* C8: after DoInit there are max(1, n) bundles for source count n, the
\* i-th owning the declared keys source<i>.il, .fovx, .fovy, .placeholder;
\* their number and order stay, and the filter receives them in that order.
SourceCountAndKeys ==
  pc # "start" =>
    /\ Len(m_Bundles) = Max(1, nsources)
    /\ \A i \in 1..Len(m_Bundles) :
         /\ m_Bundles[i].m_KeyIn = SourceKey(i, "il")
         /\ m_Bundles[i].m_KeyPszX = SourceKey(i, "fovx")
         /\ m_Bundles[i].m_KeyPszY = SourceKey(i, "fovy")
         /\ m_Bundles[i].m_KeyPHName = SourceKey(i, "placeholder")
         /\ {m_Bundles[i].m_KeyIn, m_Bundles[i].m_KeyPszX, m_Bundles[i].m_KeyPszY,
             m_Bundles[i].m_KeyPHName} \subseteq DOMAIN m_ParameterList
    /\ \A i, j \in 1..Len(m_Bundles) :
         i # j =>
           {m_Bundles[i].m_KeyIn, m_Bundles[i].m_KeyPszX, m_Bundles[i].m_KeyPszY,
            m_Bundles[i].m_KeyPHName}
           \cap {m_Bundles[j].m_KeyIn, m_Bundles[j].m_KeyPszX, m_Bundles[j].m_KeyPszY,
                 m_Bundles[j].m_KeyPHName} = {}
    /\ (FilterOfThisRun /\ m_TFFilter.inputs # <<>>) =>
         /\ Len(m_TFFilter.inputs) = Len(m_Bundles)
         /\ \A i \in 1..Len(m_Bundles) :
              m_TFFilter.inputs[i] =
                [placeholder |-> params[SourceKey(i, "placeholder")],
                 patchSize |-> <<params[SourceKey(i, "fovx")], params[SourceKey(i, "fovy")]>>,
                 image |-> params[SourceKey(i, "il")]]

\* C8 witness: two sources with different placeholders and patch sizes have
\* been pushed and a tile computed.
SourceCountAndKeysWitness ==
  /\ nsources = 2
  /\ Len(m_Bundles) = 2
  /\ tileLog # <<>>
  /\ m_TFFilter.inputs[1].placeholder = "x2"
  /\ m_TFFilter.inputs[2].placeholder = "x1"
  /\ m_TFFilter.inputs[1].patchSize # m_TFFilter.inputs[2].patchSize

\* The output information of this run's filter has been computed, or a tile
\* of this run has been pulled or is about to be.
RunUnderWay ==
  \/ FilterOfThisRun /\ m_TFFilter.outputRegion # NoRegion
  \/ tileLog # <<>>
  \/ pending # <<>>

\* C9: once the output information of the run's filter has been computed or
\* a tile is being processed, no step of the same run changes a bundle or a
\* value DoExecute set on the filter.
StagedLifecycle ==
  [][(RunUnderWay /\ run' = run) =>
       /\ m_Bundles' = m_Bundles
       /\ FilterConfig(m_TFFilter') = FilterConfig(m_TFFilter)]_vars

\* C9 witness: between two tiles of a tiled run with two sources, a field
\* of expression of 2 and user placeholders.
StagedLifecycleWitness ==
  /\ Len(tileLog) >= 1
  /\ pending # <<>>
  /\ Len(m_Bundles) = 2
  /\ m_TFFilter.outputFOESize = <<2, 2>>
  /\ m_TFFilter.userPlaceholders # <<>>

\* C10: the model is loaded once per run, before anything else in
\* DoExecute; the session the run's filter holds, and the one every tile of
\* the run was computed on, is the session of the loaded model, which is
\* still alive; it is not replaced while the output is being pulled.
ModelHandleLifetime ==
  /\ loadCount <= 1
  /\ (pc = "exec" /\ ip > 1) => loadCount = 1
  /\ FilterOfThisRun =>
       /\ loadCount = 1
       /\ m_TFFilter.session = m_SavedModel.session
       /\ m_TFFilter.session \in liveSessions
  /\ \A t \in 1..Len(tileLog) :
       /\ tileLog[t].session = m_SavedModel.session
       /\ tileLog[t].session \in liveSessions
  /\ pc = "writing" => FilterOfThisRun

\* C10 witness: a tile computed in a second DoExecute on the same object.
ModelHandleLifetimeWitness ==
  /\ run = 2
  /\ tileLog # <<>>
  /\ m_SavedModel.session = 2

====
